---- MODULE Spec2Model ----
(***************************************************************************)
(* Model of the upload form component UploadMain                           *)
(* (apps/web/src/components/Upload/UploadMain.tsx).                        *)
(*                                                                         *)
(* One component instance is followed from its first render to its         *)
(* removal from the view.  The React state of the instance is the five     *)
(* useState cells; every handler runs to completion on the UI thread, the  *)
(* only suspension point being the awaited uploadFileStep call, whose      *)
(* continuation is a separate step.  Strings that the code builds (the     *)
(* navigation target) are sequences of one-character strings.              *)
(***************************************************************************)
EXTENDS Integers, Sequences, FiniteSets, TLC

\* ---------------------------------------------------------------- bounds
NumFiles == 3
MaxCalls == 2

\* ------------------------------------------------------------- constants
NULL == "null"

\* a File | null cell holds 0 for null, or the identity of a File object
NoFileRef == 0

Fast == "Fast"
HighQuality == "HighQuality"
Model == {Fast, HighQuality}

FileNames == <<"report.pdf", "notes.txt">>

\* File objects the picker can hand over: distinct objects, names may repeat.
Files == 1..NumFiles

\* uploadedFile.name
NameOf(f) == FileNames[((f - 1) % Len(FileNames)) + 1]

\* task_id values the upload service may answer with
TaskIds == {<<"a", "b", "c", "1", "2", "3">>, <<"t", "7">>}

ErrorText == "Failed to upload file. Please try again later."

RootUrl == <<"/">>

\* symbols of the table cells, named by code point
CheckMark == "U+2713"
HyphenMinus == "U+002D"
EnDash == "U+2013"

\* nothing rendered yet
NotRendered == [header |-> <<>>, rows |-> <<>>]

\* ------------------------------------------------------------- variables
VARIABLES
    mounted,    \* the instance is in the view
    file,       \* useState<File | null>
    fileName,   \* useState("")
    model,      \* useState<Model>
    isLoading,  \* useState(false)
    error,      \* useState<string | null>
    calls,      \* uploadFileStep calls started by this instance, in order
    navLog,     \* targets handed to the navigation facility, in order
    lastOp,     \* history: the last handler or continuation that ran
    tierRun,    \* history: tier values along the current run of toggles
    picked,     \* history: the File last handed over by the picker
    rendered    \* what ModelTable last rendered

state == <<file, fileName, model, isLoading, error>>
upload == <<mounted, file, fileName, model, isLoading, error, calls, navLog, lastOp, tierRun, picked>>
vars == <<mounted, file, fileName, model, isLoading, error, calls, navLog, lastOp, tierRun, picked, rendered>>

\* ------------------------------------------------------- URL construction
\* the target built as a path segment instead of a query parameter
StatusUrl_path(t) == <<"/", "s", "t", "a", "t", "u", "s", "/">> \o t

\* `/status?taskId=${taskResponse.task_id}` : plain concatenation
StatusUrl(t) == <<"/", "s", "t", "a", "t", "u", "s", "?", "t", "a", "s", "k", "I", "d", "=">> \o t

\* How the navigation facility reads a target: path, then key=value pairs.
IndexOf(s, c) == IF \E i \in 1..Len(s) : s[i] = c
                 THEN CHOOSE i \in 1..Len(s) : s[i] = c /\ \A j \in 1..(i - 1) : s[j] # c
                 ELSE 0

PathOf(url) == IF IndexOf(url, "?") = 0 THEN url ELSE SubSeq(url, 1, IndexOf(url, "?") - 1)

QueryOf(url) == IF IndexOf(url, "?") = 0 THEN <<>> ELSE SubSeq(url, IndexOf(url, "?") + 1, Len(url))

\* the values of parameter key, in order of appearance
RECURSIVE GetParam(_, _)
GetParam(q, key) ==
    IF q = <<>> THEN <<>>
    ELSE LET amp  == IndexOf(q, "&")
             pair == IF amp = 0 THEN q ELSE SubSeq(q, 1, amp - 1)
             rest == IF amp = 0 THEN <<>> ELSE SubSeq(q, amp + 1, Len(q))
             eq   == IndexOf(pair, "=")
             k    == IF eq = 0 THEN pair ELSE SubSeq(pair, 1, eq - 1)
             v    == IF eq = 0 THEN <<>> ELSE SubSeq(pair, eq + 1, Len(pair))
         IN IF k = key THEN <<v>> \o GetParam(rest, key) ELSE GetParam(rest, key)

StatusPath == <<"/", "s", "t", "a", "t", "u", "s">>
TaskIdKey == <<"t", "a", "s", "k", "I", "d">>

\* ------------------------------------------------------------- rendering
\* the form rendered whatever the error is
FormShown_always == TRUE

\* if (error) return <error affordance>; otherwise the form
FormShown == error = NULL

\* active without the loading test
SubmitActive_fileOnly == file # NoFileRef

\* active without the file test
SubmitActive_idleOnly == ~isLoading

\* active={!!file && !isLoading}
SubmitActive == file # NoFileRef /\ ~isLoading

\* The submit control hands a click to onClick only while it is active.
BetterButtonForwards(active) == active

\* A navigation has been issued: the view is being replaced.
Leaving == Len(navLog) > 0

Interactive == mounted /\ ~Leaving

\* --------------------------------------------------------------- helpers
InFlight == {i \in 1..Len(calls) : calls[i].status = "pending"}

PushTier(run, before, after) ==
    LET r == IF run = <<>> THEN <<before, after>> ELSE Append(run, after)
    IN IF Len(r) > 3 THEN SubSeq(r, Len(r) - 2, Len(r)) ELSE r

\* ------------------------------------------------------------------ Init
Init ==
    /\ mounted = TRUE
    /\ file = NoFileRef
    /\ fileName = ""
    /\ model = Fast
    /\ isLoading = FALSE
    /\ error = NULL
    /\ calls = <<>>
    /\ navLog = <<>>
    /\ lastOp = "init"
    /\ tierRun = <<>>
    /\ picked = NoFileRef
    /\ rendered = NotRendered

\* --------------------------------------------------------------- actions
\* the tier put back to its default on selection
handleFileUpload_resetsTier(f) ==
    /\ Interactive /\ FormShown
    /\ file' = f
    /\ fileName' = NameOf(f)
    /\ model' = Fast
    /\ lastOp' = "selectFile"
    /\ tierRun' = <<>>
    /\ picked' = f
    /\ UNCHANGED rendered
    /\ UNCHANGED <<mounted, isLoading, error, calls, navLog>>

\* the file recorded without its name
handleFileUpload_keepsName(f) ==
    /\ Interactive /\ FormShown
    /\ file' = f
    /\ lastOp' = "selectFile"
    /\ tierRun' = <<>>
    /\ picked' = f
    /\ UNCHANGED rendered
    /\ UNCHANGED <<mounted, fileName, model, isLoading, error, calls, navLog>>

\* handleFileUpload(uploadedFile)
handleFileUpload(f) ==
    /\ Interactive /\ FormShown
    /\ file' = f
    /\ fileName' = NameOf(f)
    /\ lastOp' = "selectFile"
    /\ tierRun' = <<>>
    /\ picked' = f
    /\ UNCHANGED rendered
    /\ UNCHANGED <<mounted, model, isLoading, error, calls, navLog>>

\* the file cleared, the name left
handleFileRemove_keepsName ==
    /\ Interactive /\ FormShown
    /\ file' = NoFileRef
    /\ lastOp' = "removeFile"
    /\ tierRun' = <<>>
    /\ UNCHANGED <<picked, rendered>>
    /\ UNCHANGED <<mounted, fileName, model, isLoading, error, calls, navLog>>

\* the removal also lowering the loading flag
handleFileRemove_resetsLoading ==
    /\ Interactive /\ FormShown
    /\ file' = NoFileRef
    /\ fileName' = ""
    /\ isLoading' = FALSE
    /\ lastOp' = "removeFile"
    /\ tierRun' = <<>>
    /\ UNCHANGED <<picked, rendered>>
    /\ UNCHANGED <<mounted, model, error, calls, navLog>>

\* handleFileRemove()
handleFileRemove ==
    /\ Interactive /\ FormShown
    /\ file' = NoFileRef
    /\ fileName' = ""
    /\ lastOp' = "removeFile"
    /\ tierRun' = <<>>
    /\ UNCHANGED <<picked, rendered>>
    /\ UNCHANGED <<mounted, model, isLoading, error, calls, navLog>>

\* a toggle that can only switch to HighQuality
Toggle_oneWay(m) == HighQuality

\* model === Model.Fast ? Model.HighQuality : Model.Fast
Toggle(m) == IF m = Fast THEN HighQuality ELSE Fast

\* handleModelToggle()
handleModelToggle ==
    /\ Interactive /\ FormShown
    /\ model' = Toggle(model)
    /\ lastOp' = "toggleTier"
    /\ tierRun' = PushTier(tierRun, model, model')
    /\ UNCHANGED <<picked, rendered>>
    /\ UNCHANGED <<mounted, file, fileName, isLoading, error, calls, navLog>>

\* the guard left out
NoFile_unguarded == FALSE

\* if (!file)
NoFile == file = NoFileRef

\* the loading flag not raised
LoadingAtStart_unset == isLoading

\* setIsLoading(true)
LoadingAtStart == TRUE

\* setError(null)
ErrorAtStart == NULL

\* a payload that carries the default tier
Payload_defaultTier == [file |-> file, model |-> Fast]

\* const payload: UploadForm = { file, model }
Payload == [file |-> file, model |-> model]

\* handleRun(), up to the await
handleRun ==
    /\ Interactive /\ FormShown
    /\ file = NoFileRef \/ BetterButtonForwards(SubmitActive)
    /\ tierRun' = <<>>
    /\ UNCHANGED <<picked, rendered>>
    /\ IF NoFile
       THEN /\ lastOp' = "submitNoFile"
            /\ UNCHANGED <<mounted, file, fileName, model, isLoading, error, calls, navLog>>
       ELSE /\ Len(calls) < MaxCalls
            /\ isLoading' = LoadingAtStart
            /\ error' = ErrorAtStart
            /\ calls' = Append(calls, [file |-> Payload.file, model |-> Payload.model, status |-> "pending",
                                       taskId |-> <<>>, navigated |-> FALSE, errorSet |-> FALSE])
            /\ lastOp' = "submit"
            /\ UNCHANGED <<mounted, file, fileName, model, navLog>>

\* the loading flag not lowered
LoadingAfterFinally_kept == isLoading

\* finally { setIsLoading(false) }
LoadingAfterFinally == FALSE

\* the navigation made only while the instance is in the view
UploadResolves_gated(i, t) ==
    /\ i \in InFlight
    /\ calls' = [calls EXCEPT ![i].status = "resolved", ![i].taskId = t, ![i].navigated = mounted]
    /\ navLog' = IF mounted THEN Append(navLog, StatusUrl(t)) ELSE navLog
    /\ isLoading' = IF mounted THEN LoadingAfterFinally ELSE isLoading
    /\ lastOp' = "resolved"
    /\ tierRun' = <<>>
    /\ UNCHANGED <<picked, rendered>>
    /\ UNCHANGED <<mounted, file, fileName, model, error>>

\* handleRun(), continuation when uploadFileStep resolves with task_id t
UploadResolves(i, t) ==
    /\ i \in InFlight
    /\ calls' = [calls EXCEPT ![i].status = "resolved", ![i].taskId = t, ![i].navigated = TRUE]
    /\ navLog' = Append(navLog, StatusUrl(t))
    /\ isLoading' = IF mounted THEN LoadingAfterFinally ELSE isLoading
    /\ lastOp' = "resolved"
    /\ tierRun' = <<>>
    /\ UNCHANGED <<picked, rendered>>
    /\ UNCHANGED <<mounted, file, fileName, model, error>>

\* another message
ErrorAfterCatch_other == "Upload failed"

\* setError("Failed to upload file. Please try again later.")
ErrorAfterCatch == ErrorText

\* the navigation placed where it also runs after a rejection
UploadRejects_navigates(i) ==
    /\ i \in InFlight
    /\ calls' = [calls EXCEPT ![i].status = "rejected", ![i].errorSet = TRUE, ![i].navigated = TRUE]
    /\ navLog' = Append(navLog, StatusUrl(<<"u", "n", "d", "e", "f", "i", "n", "e", "d">>))
    /\ error' = IF mounted THEN ErrorAfterCatch ELSE error
    /\ isLoading' = IF mounted THEN LoadingAfterFinally ELSE isLoading
    /\ lastOp' = "rejected"
    /\ tierRun' = <<>>
    /\ UNCHANGED <<picked, rendered>>
    /\ UNCHANGED <<mounted, file, fileName, model>>

\* the call issued again after a rejection
UploadRejects_retries(i) ==
    /\ i \in InFlight
    /\ calls' = Append([calls EXCEPT ![i].status = "rejected", ![i].errorSet = TRUE],
                       [calls[i] EXCEPT !.status = "pending"])
    /\ error' = IF mounted THEN ErrorAfterCatch ELSE error
    /\ isLoading' = IF mounted THEN LoadingAfterFinally ELSE isLoading
    /\ lastOp' = "rejected"
    /\ tierRun' = <<>>
    /\ UNCHANGED <<picked, rendered>>
    /\ UNCHANGED <<mounted, file, fileName, model, navLog>>

\* the setters acting on an instance that left the view
UploadRejects_unguarded(i) ==
    /\ i \in InFlight
    /\ calls' = [calls EXCEPT ![i].status = "rejected", ![i].errorSet = TRUE]
    /\ error' = ErrorAfterCatch
    /\ isLoading' = LoadingAfterFinally
    /\ lastOp' = "rejected"
    /\ tierRun' = <<>>
    /\ UNCHANGED <<picked, rendered>>
    /\ UNCHANGED <<mounted, file, fileName, model, navLog>>

\* handleRun(), continuation when uploadFileStep rejects
UploadRejects(i) ==
    /\ i \in InFlight
    /\ calls' = [calls EXCEPT ![i].status = "rejected", ![i].errorSet = TRUE]
    /\ error' = IF mounted THEN ErrorAfterCatch ELSE error
    /\ isLoading' = IF mounted THEN LoadingAfterFinally ELSE isLoading
    /\ lastOp' = "rejected"
    /\ tierRun' = <<>>
    /\ UNCHANGED <<picked, rendered>>
    /\ UNCHANGED <<mounted, file, fileName, model, navLog>>

\* <Link to="/"> of the error view
ErrorLinkClick ==
    /\ Interactive /\ ~FormShown
    /\ navLog' = Append(navLog, RootUrl)
    /\ lastOp' = "errorLink"
    /\ tierRun' = <<>>
    /\ UNCHANGED <<picked, rendered>>
    /\ UNCHANGED <<mounted, file, fileName, model, isLoading, error, calls>>

\* The instance is removed from the view; its state is no longer updated.
Unmount ==
    /\ mounted
    /\ mounted' = FALSE
    /\ lastOp' = "unmount"
    /\ tierRun' = <<>>
    /\ UNCHANGED <<picked, rendered>>
    /\ UNCHANGED <<file, fileName, model, isLoading, error, calls, navLog>>

\* the table without its last row
ModelTable_fourRows ==
    [header |-> <<"FEATURE", "FAST MODEL", "HIGH QUALITY MODEL">>,
     rows |-> << <<"Table extraction", CheckMark, CheckMark>>,
                 <<"Image processing", "Basic", "Advanced">>,
                 <<"Formula OCR", HyphenMinus, CheckMark>>,
                 <<"Processing speed", "Very fast", "Moderate">> >>]

\* ModelTable(): Table.Header and Table.Body
ModelTable ==
    [header |-> <<"FEATURE", "FAST MODEL", "HIGH QUALITY MODEL">>,
     rows |-> << <<"Table extraction", CheckMark, CheckMark>>,
                 <<"Image processing", "Basic", "Advanced">>,
                 <<"Formula OCR", HyphenMinus, CheckMark>>,
                 <<"Processing speed", "Very fast", "Moderate">>,
                 <<"Accuracy", "Good", "Excellent">> >>]

\* ModelTable is rendered; it takes no props and reads no state
ModelTableRender ==
    /\ rendered' = ModelTable
    /\ UNCHANGED upload

Next ==
    \/ \E f \in Files : handleFileUpload(f)
    \/ handleFileRemove
    \/ handleModelToggle
    \/ handleRun
    \/ \E i \in 1..MaxCalls, t \in TaskIds : UploadResolves(i, t)
    \/ \E i \in 1..MaxCalls : UploadRejects(i)
    \/ ErrorLinkClick
    \/ Unmount
    \/ ModelTableRender

Spec == Init /\ [][Next]_vars

\* the upload service answers call i, one way or the other
ServiceAnswers(i) == (\E t \in TaskIds : UploadResolves(i, t)) \/ UploadRejects(i)

\* the behaviours in which the service eventually answers every call
SpecFair == Spec /\ \A i \in 1..MaxCalls : WF_vars(ServiceAnswers(i))

TypeOK ==
    /\ mounted \in BOOLEAN
    /\ file \in Files \cup {NoFileRef}
    /\ fileName \in {""} \cup {FileNames[k] : k \in 1..Len(FileNames)}
    /\ model \in Model
    /\ isLoading \in BOOLEAN
    /\ error \in {NULL, ErrorText}
    /\ lastOp \in {"init", "selectFile", "removeFile", "toggleTier", "submit", "submitNoFile",
                   "resolved", "rejected", "errorLink", "unmount"}
    /\ Len(calls) <= MaxCalls
    /\ Len(tierRun) <= 3
    /\ picked \in Files \cup {NoFileRef}
    /\ rendered \in {NotRendered, ModelTable}

\* ---------------------------------------------------------------- claims
Last(s) == s[Len(s)]

\* call i goes from pending to the given status in this step
Settles(i, st) ==
    /\ i \in 1..Len(calls) /\ calls[i].status = "pending"
    /\ i \in 1..Len(calls') /\ calls'[i].status = st

IsStatusUrl(url) == PathOf(url) = StatusPath

\* C1: while the instance is in the view, isLoading is true only if an
\* upload call started by handleRun has not yet resolved or rejected.
C1_LoadingOnlyInFlight == mounted /\ isLoading => InFlight # {}

C1_Witness == mounted /\ isLoading /\ InFlight # {} /\ lastOp = "removeFile"

\* C2: at most one upload call of the instance is in flight, and while one
\* is in flight the submit control does not hand a click to handleRun.
C2_AtMostOneInFlight ==
    /\ Cardinality(InFlight) <= 1
    /\ (mounted /\ InFlight # {} => ~BetterButtonForwards(SubmitActive))

C2_Witness ==
    /\ Interactive /\ FormShown /\ file # NoFileRef
    /\ Cardinality(InFlight) = 1 /\ ~BetterButtonForwards(SubmitActive)

\* C3: an attempt never both navigates and sets the error (calls setError
\* with the message); a pending attempt has done neither and a settled
\* attempt has done exactly one of the two.
\* The status navigations issued are as many as the attempts that navigated,
\* and an error is displayed only if some attempt set it.
C3_NavigateXorError ==
    /\ \A i \in 1..Len(calls) :
          /\ ~(calls[i].navigated /\ calls[i].errorSet)
          /\ (calls[i].status = "pending" => ~calls[i].navigated /\ ~calls[i].errorSet)
          /\ (calls[i].status # "pending" => calls[i].navigated \/ calls[i].errorSet)
    /\ Cardinality({k \in 1..Len(navLog) : IsStatusUrl(navLog[k])})
          = Cardinality({i \in 1..Len(calls) : calls[i].navigated})
    /\ (error # NULL => \E i \in 1..Len(calls) : calls[i].errorSet)

C3_Witness ==
    /\ Len(calls) = 1 /\ calls[1].status = "rejected"
    /\ calls[1].errorSet /\ ~calls[1].navigated
    /\ error = ErrorText /\ navLog = <<>>

\* C4: right after handleRun accepted a submission isLoading is true and
\* error is null while the call is still pending; right after the call is
\* settled (resolved or rejected) isLoading is false.
C4_LoadingBracketsCall ==
    /\ (lastOp = "submit" => isLoading /\ error = NULL /\ InFlight # {})
    /\ (mounted /\ lastOp \in {"resolved", "rejected"} => ~isLoading)

C4_Witness == mounted /\ lastOp = "resolved" /\ ~isLoading /\ Len(calls) = 1

\* C5: handleRun entered with no file selected changes none of file,
\* fileName, model, isLoading, error, starts no upload call and issues no
\* navigation.
C5_NoFileIsNoOp ==
    [][file = NoFileRef /\ lastOp' \in {"submit", "submitNoFile"}
          => UNCHANGED <<file, fileName, model, isLoading, error, calls, navLog>>]_vars

C5_Witness ==
    /\ lastOp = "submitNoFile" /\ file = NoFileRef
    /\ ~isLoading /\ error = NULL /\ calls = <<>> /\ navLog = <<>>

\* C6: when the upload call of an attempt rejects, error becomes exactly the
\* fixed message, isLoading becomes false, no navigation is issued by the
\* step, and the continuation ends there (the call is settled as rejected).
C6_RejectSetsFixedError ==
    [][\A i \in 1..Len(calls) : Settles(i, "rejected") =>
          /\ navLog' = navLog
          /\ ~calls'[i].navigated
          /\ (mounted => error' = "Failed to upload file. Please try again later."
                         /\ isLoading' = FALSE)]_vars

C6_Witness ==
    /\ mounted /\ lastOp = "rejected" /\ ~isLoading
    /\ error = "Failed to upload file. Please try again later."
    /\ navLog = <<>> /\ file # NoFileRef

\* C7: when the upload call of an attempt resolves with task_id t, the step
\* issues exactly one navigation, whose path is the status view and whose
\* only taskId parameter is t, and leaves error as it was.
C7_ResolveNavigatesToStatus ==
    [][\A i \in 1..Len(calls) : Settles(i, "resolved") =>
          /\ Len(navLog') = Len(navLog) + 1
          /\ SubSeq(navLog', 1, Len(navLog)) = navLog
          /\ PathOf(Last(navLog')) = StatusPath
          /\ GetParam(QueryOf(Last(navLog')), TaskIdKey) = <<calls'[i].taskId>>
          /\ calls'[i].taskId \in TaskIds
          /\ error' = error]_vars

C7_Witness ==
    /\ lastOp = "resolved" /\ Len(calls) = 1 /\ Len(navLog) = 1
    /\ calls[1].taskId = <<"a", "b", "c", "1", "2", "3">>
    /\ GetParam(QueryOf(navLog[1]), TaskIdKey) = <<calls[1].taskId>>
    /\ error = NULL

\* C8: whenever the form is shown, the submit control is active exactly when
\* a file is selected and no upload call is in flight.
C8_ActiveIffFileAndIdle ==
    mounted /\ FormShown => (SubmitActive <=> (file # NoFileRef /\ InFlight = {}))

C8_Witness == Interactive /\ FormShown /\ SubmitActive /\ file # NoFileRef /\ InFlight = {}

Phase ==
    IF error # NULL THEN "ErrorShown"
    ELSE IF isLoading THEN "Submitting"
    ELSE IF Leaving THEN "NavigatingAway"
    ELSE "Idle"

\* C9: once error is set it is never changed, no handler of the form acts
\* any more (file, fileName, model, isLoading and the calls stay as they
\* are), and the only navigation is the one to the root view; the phases
\* follow Idle -> Submitting -> {NavigatingAway, ErrorShown}.
C9_ErrorShownAbsorbing ==
    [][/\ (error # NULL =>
              /\ error' = error
              /\ UNCHANGED <<file, fileName, model, isLoading, calls>>
              /\ (navLog' # navLog => navLog' = Append(navLog, RootUrl)))
       /\ (Phase' # Phase =>
              \/ Phase = "Idle" /\ Phase' = "Submitting"
              \/ Phase = "Submitting" /\ Phase' \in {"NavigatingAway", "ErrorShown"})]_vars

C9_Witness ==
    /\ mounted /\ error # NULL /\ lastOp = "errorLink"
    /\ navLog = <<RootUrl>> /\ InFlight = {}

\* C10: along a run of consecutive toggles every toggle yields the other
\* tier value, and two toggles give back the value the run started from.
C10_DoubleToggleRestores ==
    /\ (Len(tierRun) >= 2 =>
           /\ Last(tierRun) = model
           /\ tierRun[Len(tierRun)] # tierRun[Len(tierRun) - 1])
    /\ (Len(tierRun) >= 3 => tierRun[Len(tierRun)] = tierRun[Len(tierRun) - 2])

C10_Witness == Len(tierRun) = 3 /\ tierRun[1] = HighQuality /\ model = HighQuality

\* C11: right after handleFileUpload(f) file is f and fileName is the name
\* of f; right after handleFileRemove() file is null and fileName is empty,
\* as in the initial state.
C11_SelectThenRemove ==
    /\ (lastOp = "selectFile" => file = picked /\ file \in Files /\ fileName = NameOf(picked))
    /\ (lastOp = "removeFile" => file = NoFileRef /\ fileName = "")

C11_Witness ==
    /\ lastOp = "removeFile" /\ picked \in Files /\ NameOf(picked) = "report.pdf"
    /\ file = NoFileRef /\ fileName = ""

\* C12: a handleFileUpload step leaves model, isLoading, error, the calls and
\* the navigations as they are, and whenever the form can be used every File
\* is accepted.
C12_SelectFrame ==
    [][/\ (lastOp' = "selectFile" => UNCHANGED <<model, isLoading, error, calls, navLog, mounted>>)
       /\ (Interactive /\ FormShown => \A f \in Files : ENABLED handleFileUpload(f))]_vars

C12_Witness ==
    /\ lastOp = "selectFile" /\ file = picked /\ file \in Files
    /\ model = HighQuality /\ isLoading /\ error = NULL

\* C13: once the instance is removed from the view, no step changes file,
\* fileName, model, isLoading or error; in particular the resolution or
\* rejection of a call that was in flight at removal does not.
C13_DiscardedAfterUnmount ==
    [][~mounted => UNCHANGED <<file, fileName, model, isLoading, error>> /\ ~mounted']_vars

C13_Witness ==
    /\ ~mounted /\ lastOp = "rejected" /\ InFlight = {}
    /\ isLoading /\ error = NULL

\* the table of the claim as worded, with an en dash in the Formula OCR row
TableAsWorded ==
    [header |-> <<"FEATURE", "FAST MODEL", "HIGH QUALITY MODEL">>,
     rows |-> << <<"Table extraction", CheckMark, CheckMark>>,
                 <<"Image processing", "Basic", "Advanced">>,
                 <<"Formula OCR", EnDash, CheckMark>>,
                 <<"Processing speed", "Very fast", "Moderate">>,
                 <<"Accuracy", "Good", "Excellent">> >>]

\* C14 as worded: whatever the state, the rendered table has three header
\* columns and the five rows Table extraction (check/check), Image processing
\* (Basic/Advanced), Formula OCR (en dash/check), Processing speed
\* (Very fast/Moderate), Accuracy (Good/Excellent).
C14_TableAsWorded == rendered # NotRendered => rendered = TableAsWorded

\* C14, amended: the same table, the fast-tier cell of the Formula OCR row
\* being the hyphen-minus character.
C14_FixedTable ==
    rendered # NotRendered =>
        /\ Len(rendered.header) = 3
        /\ rendered.rows = << <<"Table extraction", CheckMark, CheckMark>>,
                              <<"Image processing", "Basic", "Advanced">>,
                              <<"Formula OCR", HyphenMinus, CheckMark>>,
                              <<"Processing speed", "Very fast", "Moderate">>,
                              <<"Accuracy", "Good", "Excellent">> >>

C14_Witness == rendered # NotRendered /\ Len(rendered.rows) = 5 /\ isLoading

\* C15: the request of a call is made of the file and the tier current when
\* handleRun starts it, and no later step changes the request of a call.
C15_RequestFrozen ==
    [][/\ \A i \in 1..Len(calls) :
             /\ i <= Len(calls')
             /\ calls'[i].file = calls[i].file
             /\ calls'[i].model = calls[i].model
       /\ (Len(calls') > Len(calls) =>
             /\ Last(calls').file = file /\ file # NoFileRef
             /\ Last(calls').model = model)]_vars

C15_Witness ==
    /\ mounted /\ InFlight = {1}
    /\ calls[1].file # file /\ file # NoFileRef /\ calls[1].model # model

\* C16: a step starts an upload call only if it is an accepted handleRun,
\* which starts exactly one; a rejection starts none, so the calls never
\* outnumber the accepted submissions.
C16_OneCallPerSubmit ==
    [][/\ (Len(calls') # Len(calls) => lastOp' = "submit" /\ Len(calls') = Len(calls) + 1)
       /\ (lastOp' = "submit" /\ lastOp # "submit" => Len(calls') = Len(calls) + 1)
       /\ (\A i \in 1..Len(calls) : Settles(i, "rejected") =>
              Len(calls') = Len(calls) /\ InFlight' = InFlight \ {i})]_vars

C16_Witness == lastOp = "rejected" /\ Len(calls) = 1 /\ InFlight = {} /\ mounted

\* C17: while the instance is in the view and a call is in flight isLoading
\* is true, and isLoading is lowered only by a step that settles a call; if
\* the service eventually answers every call, a raised isLoading is
\* eventually lowered, unless the instance leaves the view first.
C17_LoadingUntilSettled ==
    /\ [][/\ (mounted /\ InFlight # {} => isLoading)
          /\ (isLoading /\ ~isLoading' =>
                 \E i \in 1..Len(calls) : Settles(i, "resolved") \/ Settles(i, "rejected"))]_vars
    /\ ((mounted /\ isLoading) ~> (~isLoading \/ ~mounted))
    /\ (InFlight # {} ~> InFlight = {})

C17_Witness ==
    /\ mounted /\ isLoading /\ InFlight # {} /\ lastOp = "toggleTier"
    /\ file = NoFileRef

\* C18: fileName is empty exactly when file is null, and otherwise is the
\* name of the selected File.
C18_NameMatchesFile ==
    /\ (file = NoFileRef <=> fileName = "")
    /\ (file # NoFileRef => fileName = NameOf(file))

C18_Witness ==
    /\ Len(calls) = 1 /\ calls[1].status = "resolved"
    /\ file # NoFileRef /\ file # calls[1].file
    /\ NameOf(file) # NameOf(calls[1].file) /\ fileName = NameOf(file)

\* C19: a call that resolves after the instance left the view, or after the
\* file or the tier was changed during flight, still issues the navigation
\* to the status view with the task_id of the answer.
C19_NavigationNotGated ==
    [][\A i \in 1..Len(calls) :
          Settles(i, "resolved")
          /\ (~mounted \/ file # calls[i].file \/ model # calls[i].model)
          => /\ Len(navLog') = Len(navLog) + 1
             /\ navLog' = Append(navLog, Last(navLog'))
             /\ IsStatusUrl(Last(navLog'))
             /\ GetParam(QueryOf(Last(navLog')), TaskIdKey) = <<calls'[i].taskId>>]_vars

C19_Witness ==
    /\ ~mounted /\ lastOp = "resolved" /\ Len(calls) = 1
    /\ file = NoFileRef /\ model # calls[1].model
    /\ navLog = <<StatusUrl(calls[1].taskId)>>

====
